---- MODULE Spec2Model ----
(***************************************************************************)
(* HydraAI coordinator: the request handlers of coordinator.py running as  *)
(* concurrent Flask threads over one shared sqlite connection (database.py)*)
(* and one shared model guarded by model_lock, plus the background task    *)
(* generator thread.  One action is one atomic step of a handler: a single *)
(* SQL statement, a lock operation or the copy of one parameter tensor.    *)
(*                                                                         *)
(* Numbers: token amounts and parameter values are exact rationals         *)
(* <<numerator, denominator>> (1.0 and 0.5 and their sums are exact in     *)
(* binary floating point; the blend is modelled in exact arithmetic).      *)
(***************************************************************************)
EXTENDS Integers, Sequences, FiniteSets, TLC

VARIABLES
    users,          \* table users: user_id -> row
    tasks,          \* table tasks: rows in rowid (insertion) order
    transactions,   \* table transactions: rows in AUTOINCREMENT order
    params,         \* self.model's named parameters: name -> tensor
    model_lock,     \* self.model_lock: Nil (free) or the thread holding it
    threads,        \* the request-serving threads: pc, locals, response
    bg,             \* background_task_generator thread: pc and loop index
    training_data,  \* self.training_data
    worker,         \* a HydraWorker process running work_loop (worker.py)
    clock,          \* datetime.now(): logical time, advancing as requests arrive
    nreq            \* number of requests received so far

vars == <<users, tasks, transactions, params, model_lock, threads, bg, training_data, worker, clock, nreq>>

(***************************************************************************)
(* Bounds of the model.                                                    *)
(***************************************************************************)
\* requests the coordinator receives in the window that is modelled
MaxRequests == 2
\* tasks generated at construction (generate_tasks(num_tasks=20), scaled down)
InitTasks == 1
\* tasks per background batch (generate_tasks(num_tasks=10), scaled down)
GenBatch == 1

\* app.run(threaded=True): every request is served by a thread of its own
Threads == 1..MaxRequests
\* the background generator is followed for one batch
MaxTasks == InitTasks + GenBatch
TaskIds == 1..MaxTasks
Workers == {"alice", "bob"}
\* Python None / SQL NULL in a text-typed place
NULL == "NULL"
\* Python None / SQL NULL in an integer-typed place (task ids, timestamps)
Nil == 0

(***************************************************************************)
(* Exact rational arithmetic.                                              *)
(***************************************************************************)
\* Euclid's algorithm, as a function so that each step works on values
GCD(a, b) ==
    LET gcd[p \in Nat \X Nat] == IF p[2] = 0 THEN p[1] ELSE gcd[<<p[2], p[1] % p[2]>>]
    IN  gcd[<<a, b>>]

Abs(x) == IF x < 0 THEN -x ELSE x

Rat(n, d) ==
    LET g == GCD(Abs(n), d)
    IN  <<n \div g, d \div g>>

RatAdd(p, q) == Rat(p[1] * q[2] + q[1] * p[2], p[2] * q[2])
RatMul(p, q) == Rat(p[1] * q[1], p[2] * q[2])
RatNeg(p) == <<-p[1], p[2]>>
RatLess(p, q) == p[1] * q[2] < q[1] * p[2]
Zero == <<0, 1>>
One == <<1, 1>>

RECURSIVE RatSum(_)
RatSum(s) == IF s = <<>> THEN Zero ELSE RatAdd(s[1], RatSum(Tail(s)))


(***************************************************************************)
(* Tensors: one-dimensional arrays of rationals.  The model has two named  *)
(* parameters, visited in named_parameters() order.                        *)
(***************************************************************************)
NameOrder == <<"w", "b">>
ParamNames == {NameOrder[i] : i \in DOMAIN NameOrder}
InitParams == [n \in ParamNames |-> IF n = "w" THEN <<Zero, Zero>> ELSE <<Zero>>]

\* The payloads a worker may post as updated_parameters, by name:
\*   full  - every parameter, right shapes
\*   bad   - "b" has a shape that broadcasts but differs from the stored one
\*   clash - "w" has a shape that cannot be broadcast against the stored one
\*   mixed - "w" with the right shape, no "b", and a name "x" the model lacks
UpdateNames == {"full", "bad", "clash", "mixed"}
\*   double - as full, with other values
Two == <<2, 1>>
UpdateOf(u) ==
    CASE u = "full"  -> [n \in {"w", "b"} |-> IF n = "w" THEN <<One, One>> ELSE <<One>>]
      [] u = "bad"   -> [n \in {"w", "b"} |-> <<One, One>>]
      [] u = "clash" -> [n \in {"w"} |-> <<One, One, One>>]
      [] u = "mixed" -> [n \in {"w", "x"} |-> IF n = "w" THEN <<One, One>> ELSE <<One>>]
      [] u = "double" -> [n \in {"w", "b"} |-> IF n = "w" THEN <<Two, Two>> ELSE <<Two>>]

\* self.training_data, scaled down to one example
Corpus == <<"fox">>

\* learning_rate=0.1 of aggregate_parameters
learning_rate == <<1, 10>>
\* self.tokens_per_task = 1.0
tokens_per_task == <<1, 1>>
\* tokens_cost = 0.5 of query_model
tokens_cost == <<1, 2>>

\* torch broadcasting of two 1-D shapes
Broadcastable(g, w) == Len(g) = Len(w) \/ Len(g) = 1 \/ Len(w) = 1

WeightedValueSwapped(lr, g, w) == RatAdd(RatMul(lr, g), RatMul(RatAdd(One, RatNeg(lr)), w))

\* (1 - lr) * g + lr * w for one element
WeightedValue(lr, g, w) == RatAdd(RatMul(RatAdd(One, RatNeg(lr)), g), RatMul(lr, w))

BlendValueSwapped(g, w) == RatAdd(RatMul(learning_rate, g), RatMul(RatAdd(One, RatNeg(learning_rate)), w))

\* new_values = (1 - learning_rate) * global_values + learning_rate * worker_tensor
BlendValue(g, w) == RatAdd(RatMul(RatAdd(One, RatNeg(learning_rate)), g), RatMul(learning_rate, w))

BlendTensorKeep(g, w) == g

BlendTensor(g, w) ==
    LET n == IF Len(g) >= Len(w) THEN Len(g) ELSE Len(w)
        at(t, i) == IF Len(t) = 1 THEN t[1] ELSE t[i]
    IN  [i \in 1..n |-> BlendValue(at(g, i), at(w, i))]

\* the loop of aggregate_parameters over worker_parameters.items()
BlendRaises(cur, upd) == \E n \in DOMAIN upd : n \in DOMAIN cur /\ ~Broadcastable(cur[n], upd[n])

BlendAllFill(cur, upd) ==
    [n \in DOMAIN cur |-> IF n \in DOMAIN upd THEN BlendTensor(cur[n], upd[n])
                          ELSE [i \in DOMAIN cur[n] |-> One]]

BlendAll(cur, upd) ==
    [n \in DOMAIN cur |-> IF n \in DOMAIN upd THEN BlendTensor(cur[n], upd[n]) ELSE cur[n]]

(***************************************************************************)
(* database.py: the statements of HydraDatabase over the three tables.     *)
(***************************************************************************)
Indices(seq) == DOMAIN seq
MaxOf(S) == CHOOSE x \in S : \A y \in S : x >= y
MinOf(S) == CHOOSE x \in S : \A y \in S : x <= y

\* INSERT OR REPLACE in place of INSERT: an existing row is overwritten
create_user_replace(user_id) ==
    [ok |-> TRUE,
     users |-> [u \in DOMAIN users \cup {user_id} |->
                  IF u = user_id
                  THEN [created_at |-> clock, total_tokens |-> Zero, total_work_done |-> 0]
                  ELSE users[u]]]

\* INSERT INTO users ...; False on sqlite3.IntegrityError (PRIMARY KEY user_id)
create_user(user_id) ==
    IF user_id \in DOMAIN users
    THEN [ok |-> FALSE, users |-> users]
    ELSE [ok |-> TRUE,
          users |-> [u \in DOMAIN users \cup {user_id} |->
                       IF u = user_id
                       THEN [created_at |-> clock, total_tokens |-> Zero, total_work_done |-> 0]
                       ELSE users[u]]]

\* SELECT * FROM users WHERE user_id = ?  (None when there is no row)
user_exists(user_id) == user_id \in DOMAIN users
get_user(user_id) == users[user_id]

get_pending_task_none == Nil

\* SELECT * FROM tasks WHERE status = 'pending' LIMIT 1: the table is scanned
\* in rowid order, so the first pending row in insertion order (Nil: none)
get_pending_task ==
    LET P == {i \in Indices(tasks) : tasks[i].status = "pending"}
    IN  IF P = {} THEN Nil ELSE MinOf(P)

\* UPDATE tasks SET status = 'assigned', assigned_to = ? WHERE task_id = ?
assign_task(task_id, user_id) ==
    [i \in Indices(tasks) |->
        IF tasks[i].task_id = task_id
        THEN [tasks[i] EXCEPT !.status = "assigned", !.assigned_to = user_id]
        ELSE tasks[i]]

\* UPDATE tasks SET status = 'completed', result = ?, completed_at = ? WHERE task_id = ?
complete_task(task_id, result) ==
    [i \in Indices(tasks) |->
        IF tasks[i].task_id = task_id
        THEN [tasks[i] EXCEPT !.status = "completed", !.result = result, !.completed_at = clock]
        ELSE tasks[i]]

\* the row a task_id names, as the UPDATE's WHERE clause finds it
task_exists(task_id) == \E i \in Indices(tasks) : tasks[i].task_id = task_id
task_row(task_id) == tasks[CHOOSE i \in Indices(tasks) : tasks[i].task_id = task_id]

\* INSERT INTO tasks (task_id, created_at, status, data_batch, tokens_reward)
create_task(task_id, data_batch, tokens_reward) ==
    Append(tasks, [task_id |-> task_id, created_at |-> clock, assigned_to |-> NULL,
                   status |-> "pending", data_batch |-> data_batch, result |-> NULL,
                   tokens_reward |-> tokens_reward, completed_at |-> Nil])

\* the count without the condition on status
completed_tasks_assigned(user_id) ==
    Cardinality({i \in Indices(tasks) : tasks[i].assigned_to = user_id})

\* SELECT COUNT(*) FROM tasks WHERE assigned_to = ? AND status = 'completed'
completed_tasks(user_id) ==
    Cardinality({i \in Indices(tasks) : tasks[i].assigned_to = user_id /\ tasks[i].status = "completed"})

\* random.sample(self.training_data, min(3, len(self.training_data))):
\* the sequences of k pairwise distinct positions of the corpus
SampleSizeAll(corpus) == Len(corpus)
SampleSize(corpus) == IF Len(corpus) < 3 THEN Len(corpus) ELSE 3
Samples(corpus) ==
    {[j \in 1..SampleSize(corpus) |-> corpus[f[j]]] :
        f \in {g \in [1..SampleSize(corpus) -> DOMAIN corpus] :
                 \A a, b \in 1..SampleSize(corpus) : a # b => g[a] # g[b]}}

(***************************************************************************)
(* Threads.                                                                *)
(***************************************************************************)
NoRow == [task_id |-> Nil, data_batch |-> <<>>, tokens_reward |-> Zero]
NoResp == [code |-> Nil, msg |-> NULL, task_id |-> Nil, tokens |-> Zero,
           model_parameters |-> <<>>, tasks_completed |-> 0]

\* no worker process is being followed
NoWorker ==
    [pc |-> "off", forever |-> TRUE, num_tasks |-> 0, tasks_completed |-> 0,
     failures |-> 0, json_caught |-> TRUE, last |-> NULL]

IdleThread ==
    [pc |-> "idle", op |-> NULL, user_id |-> NULL, task_id |-> Nil, upd |-> NULL,
     prompt |-> NULL, amount |-> Zero, user_tokens |-> Zero, task |-> NoRow,
     snap |-> <<>>, cur |-> <<>>, idx |-> 0, errs |-> FALSE,
     prev_status |-> NULL, prev_owner |-> NULL, resp |-> NoResp]

\* the state right after CoordinatorServer.__init__: empty users and
\* transactions, the initial tasks pending, no request in progress
RECURSIVE InitialTasks(_)
InitialTasks(n) ==
    IF n = 0 THEN <<>>
    ELSE Append(InitialTasks(n - 1),
                [task_id |-> n, created_at |-> 1, assigned_to |-> NULL,
                 status |-> "pending", data_batch |-> Corpus, result |-> NULL,
                 tokens_reward |-> tokens_per_task, completed_at |-> Nil])

\* the users table once every worker of Workers has registered, alice first
RegisteredUsers ==
    [u \in Workers |-> [created_at |-> IF u = "alice" THEN 1 ELSE 2,
                        total_tokens |-> Zero, total_work_done |-> 0]]

\* The window starts either right after construction, or after the two
\* workers have registered (two /register requests served, nothing else).
Init ==
    /\ tasks = InitialTasks(InitTasks)
    /\ transactions = <<>>
    /\ params = InitParams
    /\ model_lock = Nil
    /\ threads = [th \in Threads |-> IdleThread]
    /\ bg = [pc |-> "sleep", i |-> 0, num_tasks |-> 0]
    /\ training_data = Corpus
    /\ worker = NoWorker
    /\ nreq = 0
    /\ \E warm \in BOOLEAN :
          IF warm
          THEN users = RegisteredUsers /\ clock = 3
          ELSE users = <<>> /\ clock = 1

(***************************************************************************)
(* Request handling.  The k-th request is served by thread k.  A handler   *)
(* that has returned leaves its request and its response in the thread's   *)
(* record (pc "done").                                                     *)
(***************************************************************************)
Accept(th) ==
    /\ nreq < MaxRequests
    /\ th = nreq + 1

Resp(code, msg) == [NoResp EXCEPT !.code = code, !.msg = msg]

\* the thread after "return jsonify(...)": locals are gone, the request and
\* what the handler observed stay visible
Done(t, r) ==
    [IdleThread EXCEPT !.pc = "done", !.op = t.op, !.user_id = t.user_id,
                       !.task_id = t.task_id, !.upd = t.upd, !.prompt = t.prompt,
                       !.prev_status = t.prev_status, !.prev_owner = t.prev_owner,
                       !.resp = r]

Set(th, t) == threads' = [threads EXCEPT ![th] = t]

\* threading.Lock: acquire blocks while another thread holds the lock
lock_ignored == TRUE
lock_free == model_lock = Nil

(***************************************************************************)
(* /register                                                               *)
(***************************************************************************)
register_worker(th, user_id) ==
    /\ Accept(th)
    /\ nreq' = nreq + 1
    /\ clock' = clock + 1
    /\ LET t == [IdleThread EXCEPT !.op = "register", !.user_id = user_id]
           r == create_user(user_id)
       IN  IF user_id = NULL
           THEN /\ Set(th, Done(t, Resp(400, "user_id is required")))
                /\ UNCHANGED users
           ELSE /\ users' = r.users
                /\ IF r.ok
                   THEN Set(th, Done(t, Resp(200, "Worker registered successfully")))
                   ELSE Set(th, [t EXCEPT !.pc = "reg_get_user"])
    /\ UNCHANGED <<tasks, transactions, params, model_lock, bg, training_data, worker>>

register_get_user(th) ==
    /\ threads[th].pc = "reg_get_user"
    /\ Set(th, Done(threads[th],
                    [Resp(200, "Worker already registered") EXCEPT
                        !.tokens = get_user(threads[th].user_id).total_tokens]))
    /\ UNCHANGED <<users, tasks, transactions, params, model_lock, bg, training_data, worker, clock, nreq>>

(***************************************************************************)
(* /get_task                                                               *)
(***************************************************************************)
\* get_task without the "Verify user exists" step
get_task_unchecked(th, user_id) ==
    /\ Accept(th)
    /\ nreq' = nreq + 1
    /\ clock' = clock + 1
    /\ LET t == [IdleThread EXCEPT !.op = "get_task", !.user_id = user_id]
       IN  IF user_id = NULL
           THEN Set(th, Done(t, Resp(400, "user_id is required")))
           ELSE Set(th, [t EXCEPT !.pc = "gt_pending"])
    /\ UNCHANGED <<users, tasks, transactions, params, model_lock, bg, training_data, worker>>

get_task(th, user_id) ==
    /\ Accept(th)
    /\ nreq' = nreq + 1
    /\ clock' = clock + 1
    /\ LET t == [IdleThread EXCEPT !.op = "get_task", !.user_id = user_id]
       IN  IF user_id = NULL
           THEN Set(th, Done(t, Resp(400, "user_id is required")))
           ELSE IF ~user_exists(user_id)
           THEN Set(th, Done(t, Resp(404, "User not registered")))
           ELSE Set(th, [t EXCEPT !.pc = "gt_pending"])
    /\ UNCHANGED <<users, tasks, transactions, params, model_lock, bg, training_data, worker>>

get_task_pending(th) ==
    /\ threads[th].pc = "gt_pending"
    /\ LET i == get_pending_task
       IN  IF i = Nil
           THEN Set(th, Done(threads[th], Resp(404, "No tasks available")))
           ELSE Set(th, [threads[th] EXCEPT
                            !.pc = "gt_assign",
                            !.task = [task_id |-> tasks[i].task_id,
                                      data_batch |-> tasks[i].data_batch,
                                      tokens_reward |-> tasks[i].tokens_reward]])
    /\ UNCHANGED <<users, tasks, transactions, params, model_lock, bg, training_data, worker, clock, nreq>>

get_task_assign(th) ==
    /\ threads[th].pc = "gt_assign"
    /\ tasks' = assign_task(threads[th].task.task_id, threads[th].user_id)
    /\ Set(th, [threads[th] EXCEPT !.pc = "gt_lock"])
    /\ UNCHANGED <<users, transactions, params, model_lock, bg, training_data, worker, clock, nreq>>

get_task_lock(th) ==
    /\ threads[th].pc = "gt_lock"
    /\ lock_free
    /\ model_lock' = th
    /\ Set(th, [threads[th] EXCEPT !.pc = "gt_read", !.idx = 1])
    /\ UNCHANGED <<users, tasks, transactions, params, bg, training_data, worker, clock, nreq>>

\* get_trainable_parameters copies one named parameter after the other; the lock
\* is released when the with block ends after the last one
get_task_read(th) ==
    /\ threads[th].pc = "gt_read"
    /\ LET t == threads[th]
           n == NameOrder[t.idx]
           snap == [m \in DOMAIN t.snap \cup {n} |-> IF m = n THEN params[n] ELSE t.snap[m]]
       IN  IF t.idx < Len(NameOrder)
           THEN /\ Set(th, [t EXCEPT !.snap = snap, !.idx = t.idx + 1])
                /\ UNCHANGED model_lock
           ELSE /\ model_lock' = Nil
                /\ Set(th, Done(t, [Resp(200, "task") EXCEPT
                                       !.task_id = t.task.task_id,
                                       !.tokens = t.task.tokens_reward,
                                       !.model_parameters = snap]))
    /\ UNCHANGED <<users, tasks, transactions, params, bg, training_data, worker, clock, nreq>>

(***************************************************************************)
(* /submit_result                                                          *)
(***************************************************************************)
\* the request bodies: every combination of present fields, and one body for
\* each field left out (all([...]) fails alike whichever field is missing)
SubmitBodies ==
    [user_id : Workers, task_id : TaskIds, upd : UpdateNames]
    \cup {[user_id |-> NULL, task_id |-> 1, upd |-> "full"],
          [user_id |-> "alice", task_id |-> Nil, upd |-> "full"],
          [user_id |-> "alice", task_id |-> 1, upd |-> NULL]}

\* submit_result without the "Missing required fields" step
submit_result_unchecked(th, body) ==
    /\ Accept(th)
    /\ nreq' = nreq + 1
    /\ clock' = clock + 1
    /\ LET t == [IdleThread EXCEPT !.op = "submit_result", !.user_id = body.user_id,
                                   !.task_id = body.task_id, !.upd = body.upd]
       IN  IF ~user_exists(body.user_id)
           THEN Set(th, Done(t, Resp(404, "User not registered")))
           ELSE Set(th, [t EXCEPT !.pc = "sr_complete",
                                  !.user_tokens = get_user(body.user_id).total_tokens])
    /\ UNCHANGED <<users, tasks, transactions, params, model_lock, bg, training_data, worker>>

submit_result(th, body) ==
    /\ Accept(th)
    /\ nreq' = nreq + 1
    /\ clock' = clock + 1
    /\ LET t == [IdleThread EXCEPT !.op = "submit_result", !.user_id = body.user_id,
                                   !.task_id = body.task_id, !.upd = body.upd]
       IN  IF body.user_id = NULL \/ body.task_id = Nil \/ body.upd = NULL
           THEN Set(th, Done(t, Resp(400, "Missing required fields")))
           ELSE IF ~user_exists(body.user_id)
           THEN Set(th, Done(t, Resp(404, "User not registered")))
           ELSE Set(th, [t EXCEPT !.pc = "sr_complete",
                                  !.user_tokens = get_user(body.user_id).total_tokens])
    /\ UNCHANGED <<users, tasks, transactions, params, model_lock, bg, training_data, worker>>

\* self.db.complete_task(task_id, updated_parameters); prev_status and
\* prev_owner record the row the UPDATE found ("none": no such row)
submit_complete(th) ==
    /\ threads[th].pc = "sr_complete"
    /\ LET t == threads[th]
           found == task_exists(t.task_id)
       IN  /\ tasks' = complete_task(t.task_id, t.upd)
           /\ Set(th, [t EXCEPT !.pc = "sr_lock",
                                !.prev_status = IF found THEN task_row(t.task_id).status ELSE "none",
                                !.prev_owner = IF found THEN task_row(t.task_id).assigned_to ELSE NULL])
    /\ UNCHANGED <<users, transactions, params, model_lock, bg, training_data, worker, clock, nreq>>

submit_lock(th) ==
    /\ threads[th].pc = "sr_lock"
    /\ lock_free
    /\ model_lock' = th
    /\ Set(th, [threads[th] EXCEPT !.pc = "sr_blend"])
    /\ UNCHANGED <<users, tasks, transactions, params, bg, training_data, worker, clock, nreq>>

\* a blend that raises without leaving the with block: the lock stays held
submit_blend_keep_lock(th) ==
    /\ threads[th].pc = "sr_blend"
    /\ LET t == threads[th]
       IN  IF BlendRaises(params, UpdateOf(t.upd))
           THEN Set(th, Done(t, Resp(500, "Internal Server Error")))
           ELSE Set(th, [t EXCEPT !.pc = "sr_load", !.idx = 1, !.snap = params,
                                  !.cur = BlendAll(params, UpdateOf(t.upd))])
    /\ UNCHANGED <<users, tasks, transactions, params, model_lock, bg, training_data, worker, clock, nreq>>

\* aggregate_parameters up to the call of set_parameters: a tensor that cannot
\* be broadcast raises inside the loop, the with block releases the lock and
\* the request ends with status 500
submit_blend(th) ==
    /\ threads[th].pc = "sr_blend"
    /\ LET t == threads[th]
       IN  IF BlendRaises(params, UpdateOf(t.upd))
           THEN /\ model_lock' = Nil
                /\ Set(th, Done(t, Resp(500, "Internal Server Error")))
           ELSE /\ UNCHANGED model_lock
                /\ Set(th, [t EXCEPT !.pc = "sr_load", !.idx = 1, !.snap = params,
                                     !.cur = BlendAll(params, UpdateOf(t.upd))])
    /\ UNCHANGED <<users, tasks, transactions, params, bg, training_data, worker, clock, nreq>>

\* load_state_dict copies the tensor of name n into the model when its shape
\* is the stored one, and leaves the model alone otherwise
load_state_dict_unchecked(cur, n) == [params EXCEPT ![n] = cur[n]]
load_state_dict(cur, n) ==
    IF Len(cur[n]) = Len(params[n]) THEN [params EXCEPT ![n] = cur[n]] ELSE params

\* set_parameters -> load_state_dict(strict=False): each parameter whose shape
\* matches is copied in turn, one whose shape differs is skipped and reported;
\* after the last one a RuntimeError is raised if any was reported
submit_load(th) ==
    /\ threads[th].pc = "sr_load"
    /\ LET t == threads[th]
           n == NameOrder[t.idx]
           fits == Len(t.cur[n]) = Len(params[n])
           errs == t.errs \/ ~fits
       IN  /\ params' = load_state_dict(t.cur, n)
           /\ IF t.idx < Len(NameOrder)
              THEN /\ Set(th, [t EXCEPT !.idx = t.idx + 1, !.errs = errs])
                   /\ UNCHANGED model_lock
              ELSE /\ model_lock' = Nil
                   /\ IF errs
                      THEN Set(th, Done(t, Resp(500, "Internal Server Error")))
                      ELSE Set(th, [t EXCEPT !.pc = "tok_update", !.cur = <<>>, !.snap = <<>>, !.idx = 0,
                                             !.amount = tokens_per_task])
    /\ UNCHANGED <<users, tasks, transactions, bg, training_data, worker, clock, nreq>>

(***************************************************************************)
(* add_tokens, called by submit_result and query_model: two statements.    *)
(***************************************************************************)
\* a read-modify-write on the balance the handler read when it verified the user
tokens_after_stale(th) ==
    [users EXCEPT ![threads[th].user_id].total_tokens = RatAdd(threads[th].user_tokens, threads[th].amount)]

\* UPDATE users SET total_tokens = total_tokens + ? WHERE user_id = ?
tokens_after(th) ==
    [users EXCEPT ![threads[th].user_id].total_tokens = RatAdd(@, threads[th].amount)]

add_tokens_update(th) ==
    /\ threads[th].pc = "tok_update"
    /\ users' = tokens_after(th)
    /\ Set(th, [threads[th] EXCEPT !.pc = "tok_log"])
    /\ UNCHANGED <<tasks, transactions, params, model_lock, bg, training_data, worker, clock, nreq>>

\* the log kept as its latest record only
add_tokens_log_overwrite(th) ==
    /\ threads[th].pc = "tok_log"
    /\ LET t == threads[th]
           reward == t.op = "submit_result"
       IN  /\ transactions' = <<[user_id |-> t.user_id, amount |-> t.amount,
                                 type |-> IF reward THEN "reward" ELSE "query",
                                 task_id |-> IF reward THEN t.task_id ELSE Nil,
                                 timestamp |-> clock]>>
           /\ Set(th, [t EXCEPT !.pc = IF reward THEN "sr_respond" ELSE "q_lock"])
    /\ UNCHANGED <<users, tasks, params, model_lock, bg, training_data, worker, clock, nreq>>

\* INSERT INTO transactions (user_id, amount, type, description, timestamp)
add_tokens_log(th) ==
    /\ threads[th].pc = "tok_log"
    /\ LET t == threads[th]
           reward == t.op = "submit_result"
       IN  /\ transactions' = Append(transactions,
                                     [user_id |-> t.user_id, amount |-> t.amount,
                                      type |-> IF reward THEN "reward" ELSE "query",
                                      task_id |-> IF reward THEN t.task_id ELSE Nil,
                                      timestamp |-> clock])
           /\ Set(th, [t EXCEPT !.pc = IF reward THEN "sr_respond" ELSE "q_lock"])
    /\ UNCHANGED <<users, tasks, params, model_lock, bg, training_data, worker, clock, nreq>>

submit_respond(th) ==
    /\ threads[th].pc = "sr_respond"
    /\ Set(th, Done(threads[th],
                    [Resp(200, "Task completed successfully") EXCEPT
                        !.tokens = get_user(threads[th].user_id).total_tokens]))
    /\ UNCHANGED <<users, tasks, transactions, params, model_lock, bg, training_data, worker, clock, nreq>>

(***************************************************************************)
(* /get_balance                                                            *)
(***************************************************************************)
get_balance(th, user_id) ==
    /\ Accept(th)
    /\ nreq' = nreq + 1
    /\ clock' = clock + 1
    /\ LET t == [IdleThread EXCEPT !.op = "get_balance", !.user_id = user_id]
       IN  IF user_id = NULL
           THEN Set(th, Done(t, Resp(400, "user_id is required")))
           ELSE IF ~user_exists(user_id)
           THEN Set(th, Done(t, Resp(404, "User not found")))
           ELSE Set(th, [t EXCEPT !.pc = "gb_count",
                                  !.user_tokens = get_user(user_id).total_tokens])
    /\ UNCHANGED <<users, tasks, transactions, params, model_lock, bg, training_data, worker>>

get_balance_count(th) ==
    /\ threads[th].pc = "gb_count"
    /\ Set(th, Done(threads[th],
                    [Resp(200, "stats") EXCEPT
                        !.tokens = threads[th].user_tokens,
                        !.tasks_completed = completed_tasks(threads[th].user_id)]))
    /\ UNCHANGED <<users, tasks, transactions, params, model_lock, bg, training_data, worker, clock, nreq>>

(***************************************************************************)
(* /query_model                                                            *)
(***************************************************************************)
\* prompts: a string, a JSON value that is not a string (tokenizer.encode
\* raises on text.lower()), or none
Prompts == {"text", "number", NULL}

\* the balance check left out
insufficient_never(balance) == FALSE

\* if user['total_tokens'] < tokens_cost
insufficient(balance) == RatLess(balance, tokens_cost)

\* query_model without the "Deduct tokens" step
query_model_nodebit(th, user_id, prompt) ==
    /\ Accept(th)
    /\ nreq' = nreq + 1
    /\ clock' = clock + 1
    /\ LET t == [IdleThread EXCEPT !.op = "query_model", !.user_id = user_id, !.prompt = prompt]
       IN  IF user_id = NULL \/ prompt = NULL
           THEN Set(th, Done(t, Resp(400, "user_id and prompt are required")))
           ELSE IF ~user_exists(user_id)
           THEN Set(th, Done(t, Resp(404, "User not registered")))
           ELSE IF insufficient(get_user(user_id).total_tokens)
           THEN Set(th, Done(t, [Resp(402, "Insufficient tokens") EXCEPT
                                    !.tokens = get_user(user_id).total_tokens]))
           ELSE Set(th, [t EXCEPT !.pc = "q_lock"])
    /\ UNCHANGED <<users, tasks, transactions, params, model_lock, bg, training_data, worker>>

query_model(th, user_id, prompt) ==
    /\ Accept(th)
    /\ nreq' = nreq + 1
    /\ clock' = clock + 1
    /\ LET t == [IdleThread EXCEPT !.op = "query_model", !.user_id = user_id, !.prompt = prompt]
       IN  IF user_id = NULL \/ prompt = NULL
           THEN Set(th, Done(t, Resp(400, "user_id and prompt are required")))
           ELSE IF ~user_exists(user_id)
           THEN Set(th, Done(t, Resp(404, "User not registered")))
           ELSE IF insufficient(get_user(user_id).total_tokens)
           THEN Set(th, Done(t, [Resp(402, "Insufficient tokens") EXCEPT
                                    !.tokens = get_user(user_id).total_tokens]))
           ELSE Set(th, [t EXCEPT !.pc = "tok_update",
                                  !.user_tokens = get_user(user_id).total_tokens,
                                  !.amount = RatNeg(tokens_cost)])
    /\ UNCHANGED <<users, tasks, transactions, params, model_lock, bg, training_data, worker>>

query_lock(th) ==
    /\ threads[th].pc = "q_lock"
    /\ lock_free
    /\ model_lock' = th
    /\ Set(th, [threads[th] EXCEPT !.pc = "q_read", !.idx = 1])
    /\ UNCHANGED <<users, tasks, transactions, params, bg, training_data, worker, clock, nreq>>

\* generate_response: encode raises for a prompt that is no string (status
\* 500, the lock released by the with block); otherwise the forward pass reads
\* the parameters one after the other
query_read(th) ==
    /\ threads[th].pc = "q_read"
    /\ LET t == threads[th]
           n == NameOrder[t.idx]
           snap == [m \in DOMAIN t.snap \cup {n} |-> IF m = n THEN params[n] ELSE t.snap[m]]
       IN  IF t.prompt = "number"
           THEN /\ model_lock' = Nil
                /\ Set(th, Done(t, Resp(500, "Internal Server Error")))
           ELSE IF t.idx < Len(NameOrder)
           THEN /\ Set(th, [t EXCEPT !.snap = snap, !.idx = t.idx + 1])
                /\ UNCHANGED model_lock
           ELSE /\ model_lock' = Nil
                /\ Set(th, [t EXCEPT !.pc = "q_respond", !.snap = snap, !.idx = 0])
    /\ UNCHANGED <<users, tasks, transactions, params, bg, training_data, worker, clock, nreq>>

\* a response step that reloads the initial model
query_respond_reload(th) ==
    /\ threads[th].pc = "q_respond"
    /\ params' = InitParams
    /\ Set(th, Done(threads[th],
                    [Resp(200, "Model response") EXCEPT
                        !.tokens = get_user(threads[th].user_id).total_tokens,
                        !.model_parameters = threads[th].snap]))
    /\ UNCHANGED <<users, tasks, transactions, model_lock, bg, training_data, worker, clock, nreq>>

query_respond(th) ==
    /\ threads[th].pc = "q_respond"
    /\ Set(th, Done(threads[th],
                    [Resp(200, "Model response") EXCEPT
                        !.tokens = get_user(threads[th].user_id).total_tokens,
                        !.model_parameters = threads[th].snap]))
    /\ UNCHANGED <<users, tasks, transactions, params, model_lock, bg, training_data, worker, clock, nreq>>

(***************************************************************************)
(* background_task_generator and generate_tasks                            *)
(***************************************************************************)
\* a pass that generates whether or not a task is pending
background_check_always ==
    /\ bg.pc = "sleep"
    /\ Len(tasks) + GenBatch <= MaxTasks
    /\ bg' = [pc |-> "generate", i |-> 0, num_tasks |-> GenBatch]
    /\ UNCHANGED <<users, tasks, transactions, params, model_lock, threads, training_data, worker, clock, nreq>>

\* one pass of the loop after time.sleep(60): generate when nothing is pending
background_check ==
    /\ bg.pc = "sleep"
    /\ Len(tasks) + GenBatch <= MaxTasks
    /\ IF get_pending_task = Nil
       THEN bg' = [pc |-> "generate", i |-> 0, num_tasks |-> GenBatch]
       ELSE bg' = bg
    /\ UNCHANGED <<users, tasks, transactions, params, model_lock, threads, training_data, worker, clock, nreq>>

\* one iteration of the loop of generate_tasks.  uuid4().hex[:8] is either an
\* id no task has (the next unused number stands for it) or, by collision, the
\* id of an existing task: the INSERT then raises IntegrityError, which nothing
\* catches, and the background thread ends
generate_task ==
    /\ bg.pc = "generate"
    /\ \E batch \in Samples(training_data), collision \in BOOLEAN :
          IF collision /\ tasks # <<>>
          THEN /\ bg' = [bg EXCEPT !.pc = "dead"]
               /\ UNCHANGED tasks
          ELSE /\ tasks' = create_task(Len(tasks) + 1, batch, tokens_per_task)
               /\ bg' = IF bg.i + 1 < bg.num_tasks
                        THEN [bg EXCEPT !.i = bg.i + 1]
                        ELSE [bg EXCEPT !.pc = "sleep", !.i = 0]
    /\ UNCHANGED <<users, transactions, params, model_lock, threads, training_data, worker, clock, nreq>>

(***************************************************************************)
(* The coordinator                                                         *)
(***************************************************************************)
Next ==
    \/ \E th \in Threads, user_id \in Workers \cup {NULL} : register_worker(th, user_id)
    \/ \E th \in Threads : register_get_user(th)
    \/ \E th \in Threads, user_id \in Workers \cup {NULL} : get_task(th, user_id)
    \/ \E th \in Threads : get_task_pending(th)
    \/ \E th \in Threads : get_task_assign(th)
    \/ \E th \in Threads : get_task_lock(th)
    \/ \E th \in Threads : get_task_read(th)
    \/ \E th \in Threads, body \in SubmitBodies : submit_result(th, body)
    \/ \E th \in Threads : submit_complete(th)
    \/ \E th \in Threads : submit_lock(th)
    \/ \E th \in Threads : submit_blend(th)
    \/ \E th \in Threads : submit_load(th)
    \/ \E th \in Threads : add_tokens_update(th)
    \/ \E th \in Threads : add_tokens_log(th)
    \/ \E th \in Threads : submit_respond(th)
    \/ \E th \in Threads, user_id \in Workers \cup {NULL} : get_balance(th, user_id)
    \/ \E th \in Threads : get_balance_count(th)
    \/ \E th \in Threads, user_id \in Workers \cup {NULL}, prompt \in Prompts : query_model(th, user_id, prompt)
    \/ \E th \in Threads : query_lock(th)
    \/ \E th \in Threads : query_read(th)
    \/ \E th \in Threads : query_respond(th)
    \/ background_check
    \/ generate_task

Spec == Init /\ [][Next]_vars

\* the steps of the request thread th after the arrival of its request
ThreadStep(th) ==
    \/ register_get_user(th)
    \/ get_task_pending(th)
    \/ get_task_assign(th)
    \/ get_task_lock(th)
    \/ get_task_read(th)
    \/ submit_complete(th)
    \/ submit_lock(th)
    \/ submit_blend(th)
    \/ submit_load(th)
    \/ add_tokens_update(th)
    \/ add_tokens_log(th)
    \/ submit_respond(th)
    \/ get_balance_count(th)
    \/ query_lock(th)
    \/ query_read(th)
    \/ query_respond(th)

\* Fair scheduling: a request thread that can take a step, and the
\* background thread, are eventually run.  The requests are finitely many,
\* so a thread waiting for model_lock is in the end the only one that can
\* move and weak fairness is enough.
Fairness ==
    /\ \A th \in Threads : WF_vars(ThreadStep(th))
    /\ WF_vars(background_check)
    /\ WF_vars(generate_task)

(***************************************************************************)
(* The requests that take model_lock: the coordinator after alice has      *)
(* earned the reward of task 1, with task 2 pending, serving /get_task,    *)
(* /submit_result and /query_model requests of registered workers.         *)
(***************************************************************************)
LockTasks ==
    <<[task_id |-> 1, created_at |-> 1, assigned_to |-> "alice", status |-> "completed",
       data_batch |-> Corpus, result |-> "full", tokens_reward |-> tokens_per_task,
       completed_at |-> 5],
      [task_id |-> 2, created_at |-> 1, assigned_to |-> NULL, status |-> "pending",
       data_batch |-> Corpus, result |-> NULL, tokens_reward |-> tokens_per_task,
       completed_at |-> Nil]>>

InitLock ==
    /\ users = [RegisteredUsers EXCEPT !["alice"].total_tokens = tokens_per_task]
    /\ tasks = LockTasks
    /\ transactions = <<[user_id |-> "alice", amount |-> tokens_per_task, type |-> "reward",
                         task_id |-> 1, timestamp |-> 5]>>
    /\ params = BlendAll(InitParams, UpdateOf("full"))
    /\ model_lock = Nil
    /\ threads = [th \in Threads |-> IdleThread]
    /\ bg = [pc |-> "sleep", i |-> 0, num_tasks |-> 0]
    /\ training_data = Corpus
    /\ worker = NoWorker
    /\ clock = 6
    /\ nreq = 0

\* well-formed submissions for task 2: one that blends, one whose blend is
\* refused by set_parameters, one whose blend raises
LockBodies == [user_id : Workers, task_id : {2}, upd : {"full", "bad", "clash"}]

NextLock ==
    \/ \E th \in Threads, user_id \in Workers : get_task(th, user_id)
    \/ \E th \in Threads : get_task_pending(th)
    \/ \E th \in Threads : get_task_assign(th)
    \/ \E th \in Threads : get_task_lock(th)
    \/ \E th \in Threads : get_task_read(th)
    \/ \E th \in Threads, body \in LockBodies : submit_result(th, body)
    \/ \E th \in Threads : submit_complete(th)
    \/ \E th \in Threads : submit_lock(th)
    \/ \E th \in Threads : submit_blend(th)
    \/ \E th \in Threads : submit_load(th)
    \/ \E th \in Threads : add_tokens_update(th)
    \/ \E th \in Threads : add_tokens_log(th)
    \/ \E th \in Threads : submit_respond(th)
    \/ \E th \in Threads, prompt \in {"text", "number"} : query_model(th, "alice", prompt)
    \/ \E th \in Threads : query_lock(th)
    \/ \E th \in Threads : query_read(th)
    \/ \E th \in Threads : query_respond(th)

SpecLock == InitLock /\ [][NextLock]_vars

FairLock == SpecLock /\ Fairness

(***************************************************************************)
(* The pending pool: the coordinator with its workers registered, serving  *)
(* /get_task requests while the background thread replenishes the pool.    *)
(***************************************************************************)
InitPool ==
    /\ users = RegisteredUsers
    /\ tasks = InitialTasks(InitTasks)
    /\ transactions = <<>>
    /\ params = InitParams
    /\ model_lock = Nil
    /\ threads = [th \in Threads |-> IdleThread]
    /\ bg = [pc |-> "sleep", i |-> 0, num_tasks |-> 0]
    /\ training_data = Corpus
    /\ worker = NoWorker
    /\ clock = 3
    /\ nreq = 0

NextPool ==
    \/ \E th \in Threads, user_id \in Workers \cup {NULL} : get_task(th, user_id)
    \/ \E th \in Threads : get_task_pending(th)
    \/ \E th \in Threads : get_task_assign(th)
    \/ \E th \in Threads : get_task_lock(th)
    \/ \E th \in Threads : get_task_read(th)
    \/ background_check
    \/ generate_task

SpecPool == InitPool /\ [][NextPool]_vars

FairPool == SpecPool /\ Fairness

(***************************************************************************)
(* aggregate_parameters as a function of its two arguments: one call made  *)
(* on its own, with any learning_rate, from any parameters earlier calls   *)
(* have left.  The call is recorded in the record of thread 1, and the      *)
(* records of the calls before it move up by one.                          *)
(***************************************************************************)
Weights == {Zero, learning_rate, <<1, 2>>, One}

\* (1 - learning_rate) * global_values + learning_rate * worker_tensor, with
\* torch broadcasting
\* the plain mean of the stored and the submitted tensor
WeightedTensorMean(lr, g, w) ==
    LET n == IF Len(g) >= Len(w) THEN Len(g) ELSE Len(w)
        at(t, i) == IF Len(t) = 1 THEN t[1] ELSE t[i]
    IN  [i \in 1..n |-> RatMul(<<1, 2>>, RatAdd(at(g, i), at(w, i)))]

WeightedTensor(lr, g, w) ==
    LET n == IF Len(g) >= Len(w) THEN Len(g) ELSE Len(w)
        at(t, i) == IF Len(t) = 1 THEN t[1] ELSE t[i]
    IN  [i \in 1..n |-> WeightedValue(lr, at(g, i), at(w, i))]

\* current_params after the loop
WeightedAll(lr, cur, upd) ==
    [n \in DOMAIN cur |-> IF n \in DOMAIN upd THEN WeightedTensor(lr, cur[n], upd[n]) ELSE cur[n]]

\* the model after set_parameters(new): the tensors whose shape is the stored one
Loaded(new) ==
    [n \in DOMAIN params |-> IF Len(new[n]) = Len(params[n]) THEN new[n] ELSE params[n]]

\* the records of the calls, the latest first
Record(call) == threads' = [th \in Threads |-> IF th = 1 THEN call ELSE threads[th - 1]]

aggregate_parameters(worker_parameters, lr) ==
    /\ nreq < MaxRequests
    /\ nreq' = nreq + 1
    /\ LET upd == UpdateOf(worker_parameters)
           new == WeightedAll(lr, params, upd)
           raises == BlendRaises(params, upd)
           call == [IdleThread EXCEPT !.op = "aggregate_parameters", !.upd = worker_parameters,
                                      !.amount = lr, !.snap = params, !.pc = "done"]
       IN  IF raises
           THEN /\ UNCHANGED params
                /\ Record([call EXCEPT !.errs = TRUE])
           ELSE /\ params' = Loaded(new)
                /\ Record([call EXCEPT !.errs = \E n \in DOMAIN params : Len(new[n]) # Len(params[n])])
    /\ UNCHANGED <<users, tasks, transactions, model_lock, bg, training_data, worker, clock>>

InitAggregate ==
    /\ users = <<>>
    /\ tasks = InitialTasks(InitTasks)
    /\ transactions = <<>>
    /\ params = InitParams
    /\ model_lock = Nil
    /\ threads = [th \in Threads |-> IdleThread]
    /\ bg = [pc |-> "sleep", i |-> 0, num_tasks |-> 0]
    /\ training_data = Corpus
    /\ worker = NoWorker
    /\ clock = 1
    /\ nreq = 0

AggregateUpdates == UpdateNames \cup {"double"}

NextAggregate == \E worker_parameters \in AggregateUpdates, lr \in Weights : aggregate_parameters(worker_parameters, lr)

SpecAggregate == InitAggregate /\ [][NextAggregate]_vars

(***************************************************************************)
(* generate_tasks as a function of num_tasks and the corpus: the call      *)
(* __init__ makes on the empty tasks table.                                *)
(***************************************************************************)
MaxGenerate == 2
Corpora == {<<>>, <<"a">>, <<"a", "b">>, <<"a", "b", "c", "d">>}

InitGenerate ==
    /\ users = <<>>
    /\ tasks = <<>>
    /\ transactions = <<>>
    /\ params = InitParams
    /\ model_lock = Nil
    /\ threads = [th \in Threads |-> IdleThread]
    /\ \E num_tasks \in 1..MaxGenerate : bg = [pc |-> "generate", i |-> 0, num_tasks |-> num_tasks]
    /\ training_data \in Corpora
    /\ worker = NoWorker
    /\ clock = 1
    /\ nreq = 0

NextGenerate == generate_task

SpecGenerate == InitGenerate /\ [][NextGenerate]_vars

(***************************************************************************)
(* The task queue: the coordinator once __init__ has created several       *)
(* tasks one after the other and the workers have registered, serving      *)
(* /get_task and /submit_result.                                           *)
(***************************************************************************)
MaxQueue == 3

QueueTasks ==
    [i \in 1..MaxQueue |->
        [task_id |-> i, created_at |-> i, assigned_to |-> NULL, status |-> "pending",
         data_batch |-> Corpus, result |-> NULL, tokens_reward |-> tokens_per_task,
         completed_at |-> Nil]]

InitQueue ==
    /\ users = [u \in Workers |-> [RegisteredUsers[u] EXCEPT !.created_at = MaxQueue + @]]
    /\ tasks = QueueTasks
    /\ transactions = <<>>
    /\ params = InitParams
    /\ model_lock = Nil
    /\ threads = [th \in Threads |-> IdleThread]
    /\ bg = [pc |-> "sleep", i |-> 0, num_tasks |-> 0]
    /\ training_data = Corpus
    /\ worker = NoWorker
    /\ clock = MaxQueue + 3
    /\ nreq = 0

NextQueue ==
    \/ \E th \in Threads, user_id \in Workers \cup {NULL} : get_task(th, user_id)
    \/ \E th \in Threads : get_task_pending(th)
    \/ \E th \in Threads : get_task_assign(th)
    \/ \E th \in Threads : get_task_lock(th)
    \/ \E th \in Threads : get_task_read(th)
    \/ \E th \in Threads, body \in SubmitBodies : submit_result(th, body)
    \/ \E th \in Threads : submit_complete(th)
    \/ \E th \in Threads : submit_lock(th)
    \/ \E th \in Threads : submit_blend(th)
    \/ \E th \in Threads : submit_load(th)
    \/ \E th \in Threads : add_tokens_update(th)
    \/ \E th \in Threads : add_tokens_log(th)
    \/ \E th \in Threads : submit_respond(th)

SpecQueue == InitQueue /\ [][NextQueue]_vars

(***************************************************************************)
(* The ledger: the coordinator after alice was handed the first of two     *)
(* initial tasks and was rewarded for it, and bob was handed the second;   *)
(* serving /get_balance and /submit_result.                                *)
(***************************************************************************)
LedgerTasks ==
    <<[task_id |-> 1, created_at |-> 1, assigned_to |-> "alice", status |-> "completed",
       data_batch |-> Corpus, result |-> "full", tokens_reward |-> tokens_per_task,
       completed_at |-> 5],
      [task_id |-> 2, created_at |-> 1, assigned_to |-> "bob", status |-> "assigned",
       data_batch |-> Corpus, result |-> NULL, tokens_reward |-> tokens_per_task,
       completed_at |-> Nil]>>

InitLedger ==
    /\ users = [RegisteredUsers EXCEPT !["alice"].total_tokens = tokens_per_task]
    /\ tasks = LedgerTasks
    /\ transactions = <<[user_id |-> "alice", amount |-> tokens_per_task, type |-> "reward",
                         task_id |-> 1, timestamp |-> 5]>>
    /\ params = BlendAll(InitParams, UpdateOf("full"))
    /\ model_lock = Nil
    /\ threads = [th \in Threads |-> IdleThread]
    /\ bg = [pc |-> "sleep", i |-> 0, num_tasks |-> 0]
    /\ training_data = Corpus
    /\ worker = NoWorker
    /\ clock = 6
    /\ nreq = 0

NextLedger ==
    \/ \E th \in Threads, user_id \in Workers \cup {NULL, "carol"} : get_balance(th, user_id)
    \/ \E th \in Threads : get_balance_count(th)
    \/ \E th \in Threads, body \in SubmitBodies : submit_result(th, body)
    \/ \E th \in Threads : submit_complete(th)
    \/ \E th \in Threads : submit_lock(th)
    \/ \E th \in Threads : submit_blend(th)
    \/ \E th \in Threads : submit_load(th)
    \/ \E th \in Threads : add_tokens_update(th)
    \/ \E th \in Threads : add_tokens_log(th)
    \/ \E th \in Threads : submit_respond(th)

SpecLedger == InitLedger /\ [][NextLedger]_vars

(***************************************************************************)
(* Paid queries: the coordinator after alice has earned the reward of task *)
(* 1 and spent half of it on one query, so that her balance covers exactly *)
(* one more query, serving /query_model requests.                          *)
(***************************************************************************)
InitQuery ==
    /\ users = [RegisteredUsers EXCEPT !["alice"].total_tokens = tokens_cost]
    /\ tasks = LedgerTasks
    /\ transactions = <<[user_id |-> "alice", amount |-> tokens_per_task, type |-> "reward",
                         task_id |-> 1, timestamp |-> 5],
                        [user_id |-> "alice", amount |-> RatNeg(tokens_cost), type |-> "query",
                         task_id |-> Nil, timestamp |-> 6]>>
    /\ params = BlendAll(InitParams, UpdateOf("full"))
    /\ model_lock = Nil
    /\ threads = [th \in Threads |-> IdleThread]
    /\ bg = [pc |-> "sleep", i |-> 0, num_tasks |-> 0]
    /\ training_data = Corpus
    /\ worker = NoWorker
    /\ clock = 7
    /\ nreq = 0

NextQuery ==
    \/ \E th \in Threads, user_id \in Workers \cup {NULL}, prompt \in Prompts : query_model(th, user_id, prompt)
    \/ \E th \in Threads : add_tokens_update(th)
    \/ \E th \in Threads : add_tokens_log(th)
    \/ \E th \in Threads : query_lock(th)
    \/ \E th \in Threads : query_read(th)
    \/ \E th \in Threads : query_respond(th)

SpecQuery == InitQuery /\ [][NextQuery]_vars

(***************************************************************************)
(* worker.py: one HydraWorker running work_loop.  The worker sees the      *)
(* coordinator only through the outcome of each HTTP call:                 *)
(*   "200"     status 200 with a JSON body                                 *)
(*   "404"     status 404 with a JSON body                                 *)
(*   "other"   another status with a JSON body (400, 402)                  *)
(*   "html"    status 500 with Flask's HTML error page, the answer to a    *)
(*             handler that raised: response.json() raises on it           *)
(*   "refused" requests.post raises (no connection, timeout)               *)
(* The JSON error of response.json() is a RequestException, and so caught  *)
(* by the except clauses, from requests 2.27 on and is not before; the     *)
(* source pins no version, so json_caught is either.                       *)
(***************************************************************************)
MaxCompleted == 2
MaxFailures == 3
Outcomes == {"200", "404", "other", "html", "refused"}

coordinator_vars == <<users, tasks, transactions, params, model_lock, threads, bg, training_data, clock, nreq>>

\* the call raised out of the method: the body is read with response.json()
\* and the JSON error is not a RequestException
Propagates(o, reads_body) == o = "html" /\ reads_body /\ ~worker.json_caught

\* the worker after a call that did not succeed: one more consecutive failure
Failed(o, pc) == [worker EXCEPT !.pc = pc, !.last = o, !.failures = worker.failures + 1]

\* if not self.register(): return
work_register(o) ==
    /\ worker.pc = "register"
    /\ worker' = IF o = "200" THEN [worker EXCEPT !.pc = "check", !.last = o]
                 ELSE IF Propagates(o, TRUE) THEN [worker EXCEPT !.pc = "raised", !.last = o]
                 ELSE [worker EXCEPT !.pc = "returned", !.last = o]
    /\ UNCHANGED coordinator_vars

\* the top of the while loop: break once num_tasks tasks are completed
work_check ==
    /\ worker.pc = "check"
    /\ worker' = IF ~worker.forever /\ worker.tasks_completed >= worker.num_tasks
                 THEN [worker EXCEPT !.pc = "summary"]
                 ELSE [worker EXCEPT !.pc = "get_task"]
    /\ UNCHANGED coordinator_vars

\* task_data = self.get_task(): status 404 is answered without reading the body
work_get_task(o) ==
    /\ worker.pc = "get_task"
    /\ o # "200" => worker.failures < MaxFailures
    /\ worker' = IF o = "200" THEN [worker EXCEPT !.pc = "train", !.last = o, !.failures = 0]
                 ELSE IF Propagates(o, o # "404") THEN Failed(o, "raised")
                 ELSE Failed(o, "sleep")
    /\ UNCHANGED coordinator_vars

\* updated_parameters = self.train_on_task(task_data): None when training raised
work_train(trained) ==
    /\ worker.pc = "train"
    /\ worker' = [worker EXCEPT !.pc = IF trained THEN "submit" ELSE "sleep"]
    /\ UNCHANGED coordinator_vars

\* success = self.submit_result(...), then the balance check every 5 tasks
work_submit(o) ==
    /\ worker.pc = "submit"
    /\ IF o = "200" THEN worker.tasks_completed < MaxCompleted ELSE worker.failures < MaxFailures
    /\ LET done == IF o = "200" THEN worker.tasks_completed + 1 ELSE worker.tasks_completed
           next == IF done % 5 = 0 THEN "balance" ELSE "sleep"
       IN  worker' = IF o = "200"
                     THEN [worker EXCEPT !.pc = next, !.last = o, !.failures = 0,
                                         !.tasks_completed = done]
                     ELSE IF Propagates(o, TRUE) THEN Failed(o, "raised")
                     ELSE Failed(o, next)
    /\ UNCHANGED coordinator_vars

\* stats = self.check_balance() inside the loop
work_balance(o) ==
    /\ worker.pc = "balance"
    /\ worker' = IF Propagates(o, o # "200") THEN [worker EXCEPT !.pc = "raised"]
                 ELSE [worker EXCEPT !.pc = "sleep"]
    /\ UNCHANGED coordinator_vars

\* time.sleep(sleep_between_tasks), then the next iteration
work_sleep ==
    /\ worker.pc = "sleep"
    /\ worker' = [worker EXCEPT !.pc = "check"]
    /\ UNCHANGED coordinator_vars

\* the session summary after the loop, with its check_balance
work_summary(o) ==
    /\ worker.pc = "summary"
    /\ worker' = IF Propagates(o, o # "200") THEN [worker EXCEPT !.pc = "raised"]
                 ELSE [worker EXCEPT !.pc = "returned"]
    /\ UNCHANGED coordinator_vars

InitWorker ==
    /\ users = <<>>
    /\ tasks = InitialTasks(InitTasks)
    /\ transactions = <<>>
    /\ params = InitParams
    /\ model_lock = Nil
    /\ threads = [th \in Threads |-> IdleThread]
    /\ bg = [pc |-> "sleep", i |-> 0, num_tasks |-> 0]
    /\ training_data = Corpus
    /\ clock = 1
    /\ nreq = 0
    /\ \E forever \in BOOLEAN, num_tasks \in 1..MaxCompleted, json_caught \in BOOLEAN :
          worker = [NoWorker EXCEPT !.pc = "register", !.forever = forever,
                                    !.num_tasks = IF forever THEN 0 ELSE num_tasks,
                                    !.json_caught = json_caught]

NextWorker ==
    \/ \E o \in Outcomes : work_register(o)
    \/ work_check
    \/ \E o \in Outcomes : work_get_task(o)
    \/ \E trained \in BOOLEAN : work_train(trained)
    \/ \E o \in Outcomes : work_submit(o)
    \/ \E o \in Outcomes : work_balance(o)
    \/ work_sleep
    \/ \E o \in Outcomes : work_summary(o)

SpecWorker == InitWorker /\ [][NextWorker]_vars

(***************************************************************************)
(* What the requests and the tables show.                                  *)
(***************************************************************************)
Returned(th, op, code) ==
    /\ threads[th].op = op
    /\ threads[th].pc = "done"
    /\ threads[th].resp.code = code

\* the worker of a submit_result has been credited: the UPDATE of add_tokens is done
Credited(th) ==
    /\ threads[th].op = "submit_result"
    /\ \/ threads[th].pc \in {"tok_log", "sr_respond"}
       \/ Returned(th, "submit_result", 200)

\* the update of a submit_result has been written into the model: set_parameters
\* has copied a tensor
Blended(th) ==
    /\ threads[th].op = "submit_result"
    /\ \/ threads[th].pc = "sr_load" /\ threads[th].idx > 1
       \/ threads[th].pc \in {"tok_update", "tok_log", "sr_respond"}
       \/ Returned(th, "submit_result", 200)

\* C1: each task is handed to at most one worker: no task_id is in the
\* successful responses of two different get_task requests.
C1_TaskHandedOnce ==
    \A a, b \in Threads :
        (a # b /\ Returned(a, "get_task", 200) /\ Returned(b, "get_task", 200))
            => threads[a].resp.task_id # threads[b].resp.task_id

\* C2: a submit_result that finds its task already completed fails and
\* does not credit the worker.
C2_CompletedTaskNotCredited ==
    \A th \in Threads :
        (threads[th].op = "submit_result" /\ threads[th].prev_status = "completed")
            => ~Credited(th)

\* C3: a submit_result by a registered worker other than the one the task is
\* assigned to is rejected: it is not credited and nothing is blended.
C3_OnlyOwnerSubmits ==
    \A th \in Threads :
        (/\ threads[th].op = "submit_result"
         /\ threads[th].prev_status = "assigned"
         /\ threads[th].prev_owner # threads[th].user_id)
            => ~Credited(th) /\ ~Blended(th)

\* C4: a submit_result whose task_id names no task is rejected: nothing is
\* blended into the global parameters and the worker is not credited.
C4_UnknownTaskRejected ==
    \A th \in Threads :
        (threads[th].op = "submit_result" /\ threads[th].prev_status = "none")
            => ~Credited(th) /\ ~Blended(th)

\* C5: the only status changes of a task are pending -> assigned and
\* assigned -> completed.
C5_OnlyLifecycleTransitions ==
    [][\A i \in DOMAIN tasks :
          tasks'[i].status # tasks[i].status
             => <<tasks[i].status, tasks'[i].status>> \in
                   {<<"pending", "assigned">>, <<"assigned", "completed">>}]_vars

\* C6: registering a worker_id that exists changes no account (balance and
\* created_at stay) and reports the current balance; a first registration
\* creates the account with balance 0 and touches no other account.
C6_RegisterKeepsAccounts ==
    [][\A th \in Threads :
          (threads'[th].op = "register" /\ threads'[th] # threads[th])
             => /\ \A u \in DOMAIN users : u \in DOMAIN users' /\ users'[u] = users[u]
                /\ \A u \in DOMAIN users' \ DOMAIN users :
                      /\ u = threads'[th].user_id
                      /\ users'[u].total_tokens = Zero
                      /\ threads'[th].resp.code = 200
                      /\ threads'[th].resp.tokens = Zero
                /\ (threads[th].pc = "reg_get_user")
                      => /\ threads'[th].pc = "done"
                         /\ threads'[th].resp.code = 200
                         /\ threads'[th].resp.tokens = users[threads[th].user_id].total_tokens]_vars

\* a second registration has answered with a balance that is not 0
C6_Witness ==
    \E th \in Threads :
        /\ Returned(th, "register", 200)
        /\ threads[th].resp.msg = "Worker already registered"
        /\ threads[th].resp.tokens # Zero
        /\ users[threads[th].user_id].total_tokens = threads[th].resp.tokens

\* C7: a query_model by a registered worker whose balance is below the cost
\* (0.5) answers 402 Insufficient tokens in one step that changes no table and
\* no parameter.
C7_InsufficientBalanceNoChange ==
    [][\A th \in Threads :
          (/\ threads[th].pc = "idle"
           /\ threads'[th].op = "query_model"
           /\ threads'[th].prompt # NULL
           /\ threads'[th].user_id \in DOMAIN users
           /\ RatLess(users[threads'[th].user_id].total_tokens, <<1, 2>>))
             => /\ threads'[th].pc = "done"
                /\ threads'[th].resp.code = 402
                /\ threads'[th].resp.tokens = users[threads'[th].user_id].total_tokens
                /\ UNCHANGED <<users, transactions, tasks, params, model_lock>>]_vars

C7_Witness ==
    \E th \in Threads :
        /\ Returned(th, "query_model", 402)
        /\ RatLess(users[threads[th].user_id].total_tokens, <<1, 2>>)
        /\ transactions = <<>>

\* the deltas the transactions table holds for a user, in order
RECURSIVE LoggedAmounts(_, _)
LoggedAmounts(log, u) ==
    IF log = <<>> THEN <<>>
    ELSE IF log[1].user_id = u
         THEN <<log[1].amount>> \o LoggedAmounts(Tail(log), u)
         ELSE LoggedAmounts(Tail(log), u)

\* the deltas of the add_tokens calls that have updated the balance of u and
\* have not yet written their transaction
RECURSIVE InFlightAmounts(_, _)
InFlightAmounts(S, u) ==
    IF S = {} THEN <<>>
    ELSE LET th == CHOOSE x \in S : TRUE
         IN  (IF threads[th].pc = "tok_log" /\ threads[th].user_id = u
              THEN <<threads[th].amount>> ELSE <<>>) \o InFlightAmounts(S \ {th}, u)

\* C8: no credit or debit is lost: every account's balance is its initial
\* balance (0) plus the sum of every delta applied to it, whatever the
\* interleaving of the add_tokens calls.
C8_NoLostUpdate ==
    \A u \in DOMAIN users :
        users[u].total_tokens =
            RatAdd(RatSum(LoggedAmounts(transactions, u)), RatSum(InFlightAmounts(Threads, u)))

\* two add_tokens calls on one account are in flight at once, both having
\* updated the balance
C8_Witness ==
    \E a, b \in Threads :
        /\ a # b
        /\ threads[a].pc = "tok_log" /\ threads[b].pc = "tok_log"
        /\ threads[a].user_id = threads[b].user_id
        /\ users[threads[a].user_id].total_tokens = RatAdd(threads[a].amount, threads[b].amount)

\* thread th is inside a with self.model_lock block
InCritical(th) == threads[th].pc \in {"gt_read", "sr_blend", "sr_load", "q_read"}

\* C9: blend and snapshot never interleave: at most one thread is inside a
\* model_lock block, a snapshot being read agrees with the global parameters
\* on every name read so far, and the snapshot a request returns is the
\* global parameter set of the moment its read ended.
C9_SnapshotBlendExclusive ==
    /\ [](\A a, b \in Threads : (InCritical(a) /\ InCritical(b)) => a = b)
    /\ [](\A th \in Threads :
            threads[th].pc \in {"gt_read", "q_read"}
               => \A n \in DOMAIN threads[th].snap : threads[th].snap[n] = params[n])
    /\ [][\A th \in Threads :
            (threads[th].pc \in {"gt_read", "q_read"} /\ threads'[th].pc \in {"done", "q_respond"}
             /\ threads'[th].resp.code # 500)
               => (IF threads'[th].pc = "done" THEN threads'[th].resp.model_parameters
                   ELSE threads'[th].snap) = params]_vars

\* a get_task waits for the lock while a blend has written the first tensor
\* and not yet the second
C9_Witness ==
    \E a, b \in Threads :
        /\ threads[a].pc = "gt_lock"
        /\ threads[b].pc = "sr_load" /\ threads[b].idx = 2
        /\ model_lock = b
        /\ params # InitParams

\* the value (1 - 0.1) * old + 0.1 * submitted of every element of a tensor
ExpectedBlend(old, submitted) ==
    [i \in DOMAIN old |-> RatAdd(RatMul(<<9, 10>>, old[i]), RatMul(<<1, 10>>, submitted[i]))]

\* worker W has been handed a task by request g and has submitted the update
\* "full" for it by request s, and no other request did anything but register
ScenarioDone(W, g, s) ==
    /\ g # s
    /\ Returned(g, "get_task", 200) /\ threads[g].user_id = W
    /\ Returned(s, "submit_result", 200) /\ threads[s].user_id = W
    /\ threads[s].task_id = threads[g].resp.task_id
    /\ threads[s].upd = "full"
    /\ threads[s].prev_status = "assigned" /\ threads[s].prev_owner = W
    /\ \A o \in Threads \ {g, s} : threads[o].pc = "idle" \/ Returned(o, "register", 200)

\* C10: when a worker W with balance 0 acquires a pending task and submits
\* an update for it, W's balance is the fixed reward, the task is completed
\* with assigned_to = W, and every global parameter is
\* (1 - 0.1) * old + 0.1 * submitted.
C10_EndToEnd ==
    \A W \in Workers : \A g, s \in Threads :
        ScenarioDone(W, g, s)
           => /\ users[W].total_tokens = <<1, 1>>
              /\ threads[s].resp.tokens = <<1, 1>>
              /\ task_row(threads[s].task_id).status = "completed"
              /\ task_row(threads[s].task_id).assigned_to = W
              /\ \A n \in ParamNames : params[n] = ExpectedBlend(InitParams[n], UpdateOf("full")[n])

C10_Witness == \E W \in Workers : \E g, s \in Threads : ScenarioDone(W, g, s)

\* thread th is inside aggregate_parameters, after the loop
Loading(th) == threads[th].op = "submit_result" /\ threads[th].pc = "sr_load"

\* the step with which aggregate_parameters of thread th returns normally
BlendReturns(th) == Loading(th) /\ threads'[th].pc = "tok_update"

\* the step with which aggregate_parameters of thread th raises
BlendFails(th) ==
    /\ threads[th].op = "submit_result"
    /\ threads[th].pc \in {"sr_blend", "sr_load"}
    /\ threads'[th].pc = "done"

\* C11: a blend sets every parameter named both in the store and in the
\* update to (1 - weight) * old + weight * update_value element-wise, old
\* being the value held immediately before the blend: until the blend
\* writes a parameter it still holds the value the blend read, and when the
\* blend returns every such parameter holds the weighted value.
C11_BlendSetsWeightedValue ==
    /\ [](\A th \in Threads :
            Loading(th) =>
               \A j \in DOMAIN NameOrder :
                  j >= threads[th].idx => params[NameOrder[j]] = threads[th].snap[NameOrder[j]])
    /\ [][\A th \in Threads :
            BlendReturns(th) =>
               LET u == UpdateOf(threads[th].upd)
                   old == threads[th].snap
               IN  \A n \in DOMAIN u \cap DOMAIN old : params'[n] = ExpectedBlend(old[n], u[n])]_vars

\* a blend has returned and has changed the model
C11_Witness ==
    \E th \in Threads :
        /\ threads[th].op = "submit_result" /\ threads[th].upd = "full"
        /\ threads[th].pc = "tok_update"
        /\ \A n \in ParamNames : params[n] # InitParams[n]

\* C12: a parameter name that is not in an update keeps exactly the value it
\* had before that blend, whatever blends came before: a parameter changes
\* only in a blend whose update names it, and when a blend ends every name
\* its update lacks holds its pre-blend value.
C12_UnnamedParameterKept ==
    /\ [][\A n \in DOMAIN params :
            params'[n] # params[n] =>
               \E th \in Threads : /\ Loading(th)
                                   /\ model_lock = th
                                   /\ n \in DOMAIN UpdateOf(threads[th].upd)]_vars
    /\ [][\A th \in Threads :
            (BlendReturns(th) \/ BlendFails(th)) /\ threads[th].pc = "sr_load" =>
               \A n \in DOMAIN threads[th].snap \ DOMAIN UpdateOf(threads[th].upd) :
                  params'[n] = threads[th].snap[n]]_vars

\* an update without "b" has been blended into a model whose "b" an earlier
\* blend had changed
C12_Witness ==
    \E th \in Threads :
        /\ threads[th].op = "submit_result" /\ threads[th].upd = "mixed"
        /\ threads[th].pc = "tok_update"
        /\ params["b"] # InitParams["b"]
        /\ params["w"] # InitParams["w"]

\* C13: the parameter names of the global model, and the shape of each
\* parameter, are in every reachable state those of initialization: a name
\* only the update has is not inserted.
C13_ParameterNamesFixed ==
    /\ DOMAIN params = DOMAIN InitParams
    /\ \A n \in DOMAIN InitParams : Len(params[n]) = Len(InitParams[n])

\* a submission whose update has a name the model lacks has succeeded
C13_Witness ==
    \E th \in Threads :
        /\ Returned(th, "submit_result", 200) /\ threads[th].upd = "mixed"
        /\ "x" \in DOMAIN UpdateOf(threads[th].upd) /\ "x" \notin DOMAIN params
        /\ params["w"] # InitParams["w"]

\* C14: a blend that fails on a shape mismatch is aborted as a whole: when
\* it fails every global parameter holds its pre-blend value.
C14_FailedBlendAborted ==
    [][\A th \in Threads :
         BlendFails(th) =>
            params' = (IF threads[th].pc = "sr_load" THEN threads[th].snap ELSE params)]_vars

\* C15: a blend with weight 1.0 sets every parameter named in the update
\* exactly to the submitted value, and a blend with weight 0 leaves every
\* parameter exactly unchanged.
C15_WeightOneReplaces ==
    [][(nreq' = nreq + 1 /\ threads'[1].op = "aggregate_parameters" /\ ~threads'[1].errs) =>
          LET u == UpdateOf(threads'[1].upd)
          IN  /\ threads'[1].amount = <<1, 1>> =>
                    \A n \in DOMAIN u \cap DOMAIN params : params'[n] = u[n]
              /\ threads'[1].amount = <<0, 1>> => params' = params]_vars

\* a blend with weight 1.0 has replaced values an earlier blend had left
C15_Witness ==
    /\ threads[1].op = "aggregate_parameters" /\ threads[1].upd = "full"
    /\ threads[1].amount = <<1, 1>> /\ ~threads[1].errs
    /\ threads[1].snap # InitParams
    /\ threads[1].snap # params
    /\ params = [n \in ParamNames |-> UpdateOf("full")[n]]

\* the step with which a request of thread th arrives
Arrives(th, op) == threads[th].pc = "idle" /\ threads'[th].op = op

\* C16: a get_task by a worker id that was never registered fails with
\* "User not registered" and changes no state: no task leaves pending, no
\* account is created, and no task is ever assigned to an unregistered id.
C16_UnknownWorkerRejected ==
    /\ [][\A th \in Threads :
            (Arrives(th, "get_task") /\ threads'[th].user_id # NULL
                                     /\ threads'[th].user_id \notin DOMAIN users) =>
               /\ threads'[th].pc = "done"
               /\ threads'[th].resp.code = 404
               /\ threads'[th].resp.msg = "User not registered"
               /\ UNCHANGED <<users, tasks, transactions, params>>]_vars
    /\ [](\A i \in DOMAIN tasks :
            tasks[i].assigned_to # NULL => tasks[i].assigned_to \in DOMAIN users)

\* an unregistered worker has asked for a task while one was pending
C16_Witness ==
    \E th \in Threads :
        /\ Returned(th, "get_task", 404)
        /\ threads[th].resp.msg = "User not registered"
        /\ threads[th].user_id \notin DOMAIN users
        /\ \E i \in DOMAIN tasks : tasks[i].status = "pending"

\* C17: a get_task by a registered worker answers "No tasks available"
\* exactly when no task is pending at the moment of the selection, and a
\* request answered so changes no task record.
C17_NoTasksOnlyWhenNonePending ==
    [][\A th \in Threads :
         /\ Arrives(th, "get_task") => tasks' = tasks
         /\ (threads[th].pc = "gt_pending" /\ threads'[th] # threads[th]) =>
               /\ tasks' = tasks
               /\ (threads'[th].pc = "done" /\ threads'[th].resp.code = 404
                                            /\ threads'[th].resp.msg = "No tasks available")
                     <=> (\A i \in DOMAIN tasks : tasks[i].status # "pending")]_vars

\* a registered worker has been told that no task is available
C17_Witness ==
    \E th \in Threads :
        /\ Returned(th, "get_task", 404)
        /\ threads[th].resp.msg = "No tasks available"
        /\ threads[th].user_id \in DOMAIN users
        /\ tasks # <<>>

\* C18: a submission that does not return success never moves the task out
\* of assigned and never alters the ledger: after a failed submit_result
\* for an assigned task that no other request submitted, the task is still
\* assigned and no balance has changed.
C18_FailedSubmitKeepsTask ==
    \A th \in Threads :
        (/\ threads[th].op = "submit_result" /\ threads[th].pc = "done"
         /\ threads[th].resp.code # 200
         /\ threads[th].prev_status = "assigned"
         /\ \A o \in Threads \ {th} : threads[o].op \in {NULL, "register", "get_task"})
           => /\ task_row(threads[th].task_id).status = "assigned"
              /\ transactions = <<>>
              /\ \A u \in DOMAIN users : users[u].total_tokens = Zero

\* C19: there is no requeue: a task that has left pending is never pending
\* again, and an assigned task leaves assigned only by a submission of the
\* worker it is assigned to, so a task whose worker never submits stays
\* assigned.
C19_AssignedUntilWorkerSubmits ==
    [][\A i \in DOMAIN tasks :
         /\ i \in DOMAIN tasks'
         /\ tasks[i].status # "pending" => tasks'[i].status # "pending"
         /\ (tasks[i].status = "assigned" /\ tasks'[i].status # "assigned") =>
               \E th \in Threads : /\ threads[th].pc = "sr_complete"
                                   /\ threads[th].task_id = tasks[i].task_id
                                   /\ threads[th].user_id = tasks[i].assigned_to]_vars

\* the data_batch of a task: SampleSize items of the corpus from pairwise
\* distinct positions
IsSample(batch, corpus) ==
    /\ Len(batch) = (IF Len(corpus) < 3 THEN Len(corpus) ELSE 3)
    /\ \A j \in DOMAIN batch : \E k \in DOMAIN corpus : batch[j] = corpus[k]
    /\ \A j, k \in DOMAIN batch : j # k => batch[j] # batch[k]

\* C20: generate(n) over a non-empty corpus creates exactly n new task
\* records, each pending, with assigned_to unset, the fixed reward and a
\* data_batch of min(3, |corpus|) pairwise distinct corpus items: a call
\* has created bg.i records so far, and n when it has returned.
C20_GenerateCreatesTasks ==
    /\ bg.pc = "generate" => Len(tasks) = bg.i /\ bg.i < bg.num_tasks
    /\ bg.pc = "sleep" => Len(tasks) = bg.num_tasks
    /\ \A i \in DOMAIN tasks :
          /\ tasks[i].status = "pending"
          /\ tasks[i].assigned_to = NULL
          /\ tasks[i].tokens_reward = <<1, 1>>
          /\ IsSample(tasks[i].data_batch, training_data)

\* generate(2) over a corpus of four has returned, and an item is in both batches
C20_Witness ==
    /\ bg.pc = "sleep" /\ bg.num_tasks = 2 /\ Len(tasks) = 2
    /\ Len(training_data) = 4
    /\ tasks[1].task_id # tasks[2].task_id
    /\ \E j, k \in 1..3 : tasks[1].data_batch[j] = tasks[2].data_batch[k]
    /\ tasks[1].data_batch # tasks[2].data_batch

SomePending == \E i \in DOMAIN tasks : tasks[i].status = "pending"

\* C22: a periodic check starts the generation of the fixed-size batch if
\* and only if no task is pending when it checks, a check made while a
\* task is pending creates nothing, and the generation that returns has
\* appended exactly the batch, one pending task at a time.
C22_ReplenishIffNonePending ==
    /\ []((bg.pc = "sleep" /\ Len(tasks) + GenBatch <= MaxTasks) =>
             (ENABLED <<background_check>>_vars <=> ~SomePending))
    /\ [][(bg.pc = "sleep" /\ bg' # bg) =>
             /\ ~SomePending
             /\ bg' = [pc |-> "generate", i |-> 0, num_tasks |-> GenBatch]
             /\ tasks' = tasks]_vars
    /\ [][Len(tasks') # Len(tasks) =>
             /\ bg.pc = "generate"
             /\ Len(tasks') = Len(tasks) + 1
             /\ SubSeq(tasks', 1, Len(tasks)) = tasks
             /\ tasks'[Len(tasks')].status = "pending"
             /\ bg'.pc = "sleep" <=> bg.i + 1 = GenBatch
             /\ bg'.pc = "generate" => bg'.i = bg.i + 1]_vars

\* the background thread has found nothing pending and has created its batch
C22_Witness ==
    /\ bg.pc = "sleep" /\ bg.num_tasks = GenBatch
    /\ Len(tasks) = InitTasks + GenBatch
    /\ \A i \in DOMAIN tasks : tasks[i].status = "pending" <=> i > InitTasks

\* C23: a failed generation attempt never ends the replenishment: the
\* loop of the background thread is always either sleeping or generating.
C23_ReplenishLoopAlive == bg.pc \in {"sleep", "generate"}

\* C25: task creation always succeeds and yields an id no earlier task
\* has: every creation step of generate_tasks adds one row whose task_id
\* differs from the id of every row before it.
C25_CreateAlwaysFreshId ==
    [][(bg.pc = "generate" /\ bg' # bg) =>
          /\ Len(tasks') = Len(tasks) + 1
          /\ \A i \in DOMAIN tasks : tasks[i].task_id # tasks'[Len(tasks')].task_id]_vars

\* C24: in the worker's loop a task-fetch failure or a submit failure
\* never ends the loop: after a failed get_task or submit_result the
\* worker goes on to its wait (through the balance check where the loop
\* makes one), whatever the number of failures before.
C24_FailureNeverEndsLoop ==
    [][(worker.pc \in {"get_task", "submit"} /\ worker' # worker /\ worker'.last # "200") =>
          worker'.pc \in {"sleep", "balance"}]_vars

C27_AppendOnlyAudit ==
    /\ [][\/ transactions' = transactions
          \/ /\ Len(transactions') = Len(transactions) + 1
             /\ SubSeq(transactions', 1, Len(transactions)) = transactions
             /\ \E th \in Threads :
                   /\ threads[th].pc = "tok_log" /\ threads'[th].pc # "tok_log"
                   /\ transactions'[Len(transactions')].user_id = threads[th].user_id
                   /\ transactions'[Len(transactions')].amount = threads[th].amount]_vars
    /\ [][\A u \in DOMAIN users :
            (u \in DOMAIN users' /\ users'[u].total_tokens # users[u].total_tokens) =>
               \E th \in Threads :
                  /\ threads[th].pc = "tok_update" /\ threads'[th].pc = "tok_log"
                  /\ threads[th].user_id = u
                  /\ users'[u].total_tokens = RatAdd(users[u].total_tokens, threads[th].amount)]_vars
    /\ [][\A th \in Threads :
            (threads[th].pc = "tok_log" /\ threads'[th].pc # "tok_log") =>
               Len(transactions') = Len(transactions) + 1]_vars
    /\ []((\A th \in Threads : threads[th].pc # "tok_log") =>
             \A u \in DOMAIN users :
                users[u].total_tokens = RatSum(LoggedAmounts(transactions, u)))

\* an account has been credited and then debited, both logged
C27_Witness ==
    /\ Len(transactions) = 2
    /\ transactions[1].user_id = transactions[2].user_id
    /\ transactions[1].amount = <<1, 1>> /\ transactions[2].amount = <<-1, 2>>
    /\ \A th \in Threads : threads[th].pc # "tok_log"
    /\ users[transactions[1].user_id].total_tokens = <<1, 2>>

\* C28: result and completed_at are set only on completion: a pending or
\* assigned task has neither, a completed task has both.
C28_ResultOnlyWhenCompleted ==
    \A i \in DOMAIN tasks :
        IF tasks[i].status = "completed"
        THEN tasks[i].result # NULL /\ tasks[i].completed_at # Nil
        ELSE tasks[i].result = NULL /\ tasks[i].completed_at = Nil

\* C29: get_balance for a registered worker reports as tasks_completed
\* the number of tasks that are completed and assigned to that worker,
\* with the balance the request read; no step of it changes the tables or
\* the model; for an unknown worker it fails and creates no account.
C29_BalanceReportsCompletedCount ==
    [][\A th \in Threads :
         /\ Arrives(th, "get_balance") =>
               /\ UNCHANGED <<users, tasks, transactions, params>>
               /\ LET u == threads'[th].user_id
                  IN  IF u = NULL THEN threads'[th].resp.code = 400
                      ELSE IF u \notin DOMAIN users
                      THEN threads'[th].pc = "done" /\ threads'[th].resp.code = 404
                      ELSE /\ threads'[th].pc = "gb_count"
                           /\ threads'[th].user_tokens = users[u].total_tokens
         /\ (threads[th].pc = "gb_count" /\ threads'[th] # threads[th]) =>
               /\ UNCHANGED <<users, tasks, transactions, params>>
               /\ threads'[th].resp.code = 200
               /\ threads'[th].resp.tokens = threads[th].user_tokens
               /\ threads'[th].resp.tasks_completed =
                     Cardinality({i \in DOMAIN tasks :
                                     /\ tasks[i].status = "completed"
                                     /\ tasks[i].assigned_to = threads[th].user_id})]_vars

\* a worker with one completed task and a balance has asked for its balance
C29_Witness ==
    \E th \in Threads :
        /\ Returned(th, "get_balance", 200)
        /\ threads[th].resp.tasks_completed = 1
        /\ threads[th].resp.tokens = users[threads[th].user_id].total_tokens
        /\ threads[th].resp.tokens # Zero
        /\ \E i \in DOMAIN tasks : tasks[i].status = "assigned"

\* the debit of a query by user u is in the log
DebitLogged(u) ==
    \E k \in DOMAIN transactions :
        /\ transactions[k].user_id = u
        /\ transactions[k].amount = <<-1, 2>>
        /\ transactions[k].type = "query"

\* C30: a query that passes the balance check debits the worker by exactly
\* the cost 0.5 before the inference runs, so the debit is recorded when
\* the inference starts and stays recorded when it fails; no step of a
\* query changes the global parameters.
C30_DebitBeforeInference ==
    /\ [][\A th \in Threads :
            (Arrives(th, "query_model") /\ threads'[th].pc # "done") =>
               threads'[th].pc = "tok_update" /\ threads'[th].amount = <<-1, 2>>]_vars
    /\ [][\A th \in Threads :
            (threads[th].op = "query_model" /\ threads[th].pc = "tok_update"
             /\ threads'[th].pc # "tok_update") =>
               users'[threads[th].user_id].total_tokens =
                  RatAdd(users[threads[th].user_id].total_tokens, <<-1, 2>>)]_vars
    /\ [](\A th \in Threads :
            (/\ threads[th].op = "query_model"
             /\ \/ threads[th].pc \in {"q_lock", "q_read", "q_respond"}
                \/ threads[th].pc = "done" /\ threads[th].resp.code \in {200, 500})
               => DebitLogged(threads[th].user_id))
    /\ [][\A th \in Threads :
            (threads[th].op = "query_model" /\ threads'[th] # threads[th]) => params' = params]_vars

\* the inference of a paid query has failed and the worker has paid
C30_Witness ==
    \E th \in Threads :
        /\ Returned(th, "query_model", 500)
        /\ DebitLogged(threads[th].user_id)
        /\ users[threads[th].user_id].total_tokens = <<1, 2>>
        /\ params # InitParams

\* C31: a submit_result that lacks user_id, task_id or updated_parameters
\* is rejected with "Missing required fields" and changes no state: no
\* task is completed, no blend is applied, no balance is credited.
C31_MissingFieldsRejected ==
    [][\A th \in Threads :
         (Arrives(th, "submit_result")
          /\ (threads'[th].user_id = NULL \/ threads'[th].task_id = Nil \/ threads'[th].upd = NULL)) =>
            /\ threads'[th].pc = "done"
            /\ threads'[th].resp.code = 400
            /\ threads'[th].resp.msg = "Missing required fields"
            /\ UNCHANGED <<users, tasks, transactions, params, model_lock>>]_vars

\* a submission without updated_parameters for an existing pending task of
\* a registered worker has been rejected
C31_Witness ==
    \E th \in Threads :
        /\ Returned(th, "submit_result", 400)
        /\ threads[th].upd = NULL
        /\ threads[th].user_id \in DOMAIN users
        /\ task_exists(threads[th].task_id)
        /\ task_row(threads[th].task_id).status = "pending"

\* C32: the global parameters change only in the blend of submit_result:
\* every step that changes them is a set_parameters step of a submit_result
\* holding the lock, and no step of register, get_task, get_balance,
\* query_model or of the task generation changes them.
C32_OnlyBlendWritesModel ==
    /\ [][params' # params =>
            \E th \in Threads : /\ threads[th].op = "submit_result"
                                /\ threads[th].pc = "sr_load"
                                /\ threads'[th] # threads[th]]_vars
    /\ [][(bg' # bg \/ tasks' # tasks \/ users' # users) => params' = params]_vars
    /\ [][\A th \in Threads :
            (threads'[th] # threads[th]
             /\ threads'[th].op \in {"register", "get_task", "get_balance", "query_model"})
               => params' = params]_vars

\* a paid query has been answered from a model that a blend had changed
C32_Witness ==
    \E th \in Threads :
        /\ Returned(th, "query_model", 200)
        /\ threads[th].resp.model_parameters = params
        /\ params # InitParams

\* r to the power k
RECURSIVE RatPow(_, _)
RatPow(r, k) == IF k = 0 THEN One ELSE RatMul(r, RatPow(r, k - 1))

\* (1-w)^N * g0 + sum over i of w * (1-w)^(N-i) * u_i, for us = u_1..u_N
Ewma(w, g0, us) ==
    LET N == Len(us)
        keep == RatAdd(One, RatNeg(w))
    IN  RatAdd(RatMul(RatPow(keep, N), g0),
               RatSum([i \in 1..N |-> RatMul(RatMul(w, RatPow(keep, N - i)), us[i])]))

\* us with its last two entries exchanged
SwapLast(us) ==
    LET N == Len(us)
    IN  [i \in 1..N |-> IF i = N THEN us[N - 1] ELSE IF i = N - 1 THEN us[N] ELSE us[i]]

\* the k-th of the nreq calls of aggregate_parameters made so far
Call(k) == threads[nreq - k + 1]

\* C33: sequential blends form an exponentially weighted moving average:
\* after N successful blends u_1..u_N of equal weight w a parameter holds
\* (1-w)^N * g0 + sum over i of w * (1-w)^(N-i) * u_i, and exchanging the
\* last two updates changes the result whenever they differ and w is not 0.
C33_SequentialBlendsEwma ==
    \A n \in ParamNames : \A i \in 1..Len(InitParams[n]) :
        LET N == nreq
            w == Call(1).amount
            us == [k \in 1..N |-> UpdateOf(Call(k).upd)[n][i]]
            g0 == Call(1).snap[n][i]
        IN  (/\ N >= 1
             /\ \A k \in 1..N : /\ Call(k).op = "aggregate_parameters"
                                /\ ~Call(k).errs
                                /\ Call(k).amount = w
                                /\ n \in DOMAIN UpdateOf(Call(k).upd)) =>
                /\ params[n][i] = Ewma(w, g0, us)
                /\ (N >= 2 /\ w # Zero /\ us[N - 1] # us[N]) =>
                       params[n][i] # Ewma(w, g0, SwapLast(us))

\* two blends of weight 0.1, first of 1 and then of 2, have left 0.29 where
\* the other order leaves 0.28
C33_Witness ==
    /\ nreq = 2
    /\ Call(1).upd = "full" /\ Call(2).upd = "double"
    /\ Call(1).amount = learning_rate /\ Call(2).amount = learning_rate
    /\ ~Call(1).errs /\ ~Call(2).errs
    /\ params["b"] = << <<29, 100>> >>
    /\ Ewma(learning_rate, Zero, <<Two, One>>) = Rat(28, 100)

\* C34: no account balance is ever negative, also when several query_model
\* requests for the same account run concurrently.
C34_BalanceNeverNegative ==
    \A u \in DOMAIN users : ~RatLess(users[u].total_tokens, Zero)

\* the request of thread th has arrived and has not returned
InFlight(th) == threads[th].pc \notin {"idle", "done"}

\* C35: two submit_result calls for the same assigned task, running
\* concurrently, lead to at most one reward credit and at most one blend
\* of the global parameters for that task.
C35_ConcurrentSubmitsCreditOnce ==
    \A a, b \in Threads :
        (/\ a # b
         /\ threads[a].op = "submit_result" /\ threads[b].op = "submit_result"
         /\ InFlight(a) /\ InFlight(b)
         /\ threads[a].task_id = threads[b].task_id
         /\ threads[a].user_id = threads[b].user_id
         /\ threads[a].prev_status = "assigned"
         /\ threads[a].prev_owner = threads[a].user_id) =>
            /\ ~(Credited(a) /\ Credited(b))
            /\ ~(Blended(a) /\ Blended(b))

\* the transactions of type reward
Rewards == {k \in DOMAIN transactions : transactions[k].type = "reward"}
\* the tasks with status completed
CompletedTasks == {i \in DOMAIN tasks : tasks[i].status = "completed"}

RECURSIVE SumOver(_, _)
\* the sum of f over the index set S
SumOver(f, S) ==
    IF S = {} THEN Zero
    ELSE LET k == CHOOSE x \in S : TRUE
         IN  RatAdd(f[k], SumOver(f, S \ {k}))

\* C36: each task is rewarded exactly once: whenever no submit_result is in
\* progress, there are as many reward transactions as completed tasks, and
\* the reward credits add up to the rewards of the completed tasks.
C36_RewardsMatchCompletedTasks ==
    (\A th \in Threads : threads[th].op = "submit_result" => threads[th].pc = "done") =>
        /\ Cardinality(Rewards) = Cardinality(CompletedTasks)
        /\ SumOver([k \in DOMAIN transactions |-> transactions[k].amount], Rewards)
             = SumOver([i \in DOMAIN tasks |-> tasks[i].tokens_reward], CompletedTasks)

\* C37: once a task's assigned_to names a worker it never changes to a
\* different worker, under every interleaving of get_task and
\* submit_result requests.
C37_AssigneeNeverChanges ==
    [][\A i \in DOMAIN tasks :
          tasks[i].assigned_to # NULL => tasks'[i].assigned_to = tasks[i].assigned_to]_vars

\* thread th is waiting for model_lock
WaitsForLock(th) == threads[th].pc \in {"gt_lock", "sr_lock", "q_lock"}

\* C38: the coordinator never deadlocks on the model lock: under fair
\* scheduling every get_task, submit_result and query_model that starts
\* waiting for the lock eventually acquires it, releases it and returns a
\* response.
C38_LockWaiterReturns ==
    \A th \in Threads :
        /\ WaitsForLock(th) ~> (model_lock = th)
        /\ WaitsForLock(th) ~> (threads[th].pc = "done" /\ model_lock # th)
        /\ (model_lock = th) ~> (model_lock # th)

\* a submit_result waits for the lock while a get_task holds it
C38_Witness ==
    \E a, b \in Threads :
        /\ threads[a].pc = "sr_lock"
        /\ threads[b].pc = "gt_read"
        /\ model_lock = b

\* C39: the pending pool is eventually replenished: whenever no task is
\* pending (and the tasks table has room for a batch) then, under fair
\* scheduling of the background thread, a state is eventually reached in
\* which a task is pending.
C39_PoolEventuallyReplenished ==
    (~SomePending /\ Len(tasks) + GenBatch <= MaxTasks) ~> SomePending

\* the positions of the worker inside the while loop of work_loop
LoopPcs == {"check", "get_task", "train", "submit", "balance", "sleep"}

\* C40: work_loop(num_tasks = N) stops exactly when N submissions have
\* succeeded: tasks_completed grows by one only on a successful
\* submit_result, the loop is never left with fewer than N successes, and
\* no get_task is issued once the counter has reached N.
C40_StopsAfterNSuccesses ==
    /\ [][worker'.tasks_completed # worker.tasks_completed =>
            /\ worker.pc = "submit" /\ worker'.last = "200"
            /\ worker'.tasks_completed = worker.tasks_completed + 1]_vars
    /\ [][(~worker.forever /\ worker.pc \in LoopPcs /\ worker'.pc \notin LoopPcs) =>
            worker'.tasks_completed = worker.num_tasks]_vars
    /\ []((~worker.forever /\ worker.pc = "get_task") =>
            worker.tasks_completed < worker.num_tasks)

====
